---- MODULE Spec2Model ----
(***************************************************************************)
(* Ticket cart reservation and lottery system of the web shop:             *)
(* addTicketToCart (admission), the grace-window lottery and its timer,    *)
(* the expiry sweep run by getCart, purchaseCart and onPaymentSuccess.     *)
(*                                                                         *)
(* The ledger is the database: the Consumable and ConsumableReservation    *)
(* tables.  addTicketToCart runs its statements in an interactive          *)
(* transaction opened with prisma.$transaction(fn) and no isolationLevel   *)
(* option, so the database's default level applies (READ COMMITTED): each  *)
(* statement sees what is committed when it runs, and nothing locks the    *)
(* rows it has read.  Every statement of the admission transaction is      *)
(* therefore one step of the model, and the steps of concurrent requests   *)
(* interleave.  The admission transaction writes once, in its last         *)
(* statement, so that statement is also its commit.                        *)
(***************************************************************************)
EXTENDS Integers, FiniteSets, Sequences, TLC

VARIABLES
    clock,          \* wall-clock time (new Date()), in abstract time units
    shop,           \* Ticket/Shoppable rows, read-only to the shop core
    consumables,    \* rows of the Consumable table
    reservations,   \* rows of the ConsumableReservation table
    req,            \* in-flight addTicketToCart calls, one per request slot
    timer,          \* gracePeriodTimeouts, per shoppableId
    intents,        \* payment intents at the payment provider
    out,            \* what the step just taken returned to its caller
    calls           \* addTicketToCart calls begun so far

vars ==
    <<clock, shop, consumables, reservations, req, timer, intents, out, calls>>

\* ------------------------------------------------------------------ bounds
MaxTime == 3        \* the clock runs from 0 to MaxTime
MaxReq == 2         \* addTicketToCart calls in flight at the same time
MaxCalls == 3       \* addTicketToCart calls in one run
MaxIntents == 2     \* payment intents the provider hands out
MaxOps == 3         \* addTicketToCart and successful purchaseCart calls in one run
MaxLag == 1         \* time units an addTicketToCart call may take

\* --------------------------------------------------------------- constants
Null == -1                  \* a null column
GRACE_PERIOD_WINDOW == 1    \* length of the lottery window after availableFrom
TIME_TO_BUY == 1            \* lifetime of an unpaid hold

Ids == {"a", "b"}           \* Identifications (member id or external code)
Tickets == {"t1", "t2"}     \* ticket ids (a ticket and its shoppable share the id)
Slots == 1..MaxReq
IntentIds == 1..MaxIntents
Times == 0..MaxTime

Min(x, y) == IF x <= y THEN x ELSE y
Max(x, y) == IF x >= y THEN x ELSE y

\* The smallest row id not used by the rows in rows (the database's fresh id).
FreshId(rows) ==
    CHOOSE n \in 1..(Cardinality(rows) + 1) :
        /\ \A r \in rows : r.id # n
        /\ \A m \in 1..(n - 1) : \E r \in rows : r.id = m

\* ------------------------------------------------------------ ledger reads
ConsOf(cs, t) == {c \in cs : c.shoppableId = t}
PurchasedOf(cs, t) == {c \in ConsOf(cs, t) : c.purchasedAt # Null}
ResOf(rs, t) == {r \in rs : r.shoppableId = t}
Pooled(rs, t) == {r \in ResOf(rs, t) : r.order = Null}
Queued(rs, t) == {r \in ResOf(rs, t) : r.order # Null}

\* A Consumable row / ConsumableReservation row.
NewConsumable(rowId, owner, t, expiresAt, purchasedAt) ==
    [id |-> rowId, owner |-> owner, shoppableId |-> t, expiresAt |-> expiresAt,
     purchasedAt |-> purchasedAt, stripeIntentId |-> Null]

NewReservation(rowId, owner, t, order) ==
    [id |-> rowId, owner |-> owner, shoppableId |-> t, order |-> order]

\* ------------------------------------------------- tickets (Shoppable rows)
\* The ticket rows the shop core reads: t1 goes on sale at time 1 and costs
\* money, t2 has been on sale since time 0.  Neither is removed nor has a
\* closing time.  Either t1 has one unit and t2 is free, or t1 has two units,
\* two per buyer, and t2 costs money too.
TicketRow(price, stock, maxAmountPerUser, availableFrom) ==
    [price |-> price, stock |-> stock, maxAmountPerUser |-> maxAmountPerUser,
     availableFrom |-> availableFrom, availableTo |-> Null, removedAt |-> Null]

\* The row with an end of sale and a time of removal.
Until(row, availableTo, removedAt) ==
    [row EXCEPT !.availableTo = availableTo, !.removedAt = removedAt]

\* The third configuration has a ticket whose sale ends before it begins and
\* a ticket that is removed at time 2.
ShopConfigs ==
    {[t \in Tickets |->
        IF t = "t1" THEN TicketRow(20, 1, 1, 1) ELSE TicketRow(0, 2, 1, 0)],
     [t \in Tickets |->
        IF t = "t1" THEN TicketRow(20, 2, 2, 1) ELSE TicketRow(40, 1, 1, 0)],
     [t \in Tickets |->
        IF t = "t1" THEN Until(TicketRow(20, 1, 1, 2), 0, Null)
        ELSE Until(TicketRow(20, 1, 1, 0), Null, 2)]}

\* now lies in the lottery window of t (it may also lie before availableFrom).
InGraceWindow(now, t) == now - shop[t].availableFrom < GRACE_PERIOD_WINDOW

\* ------------------------------------------------------------ expiry sweep
\* The unpaid holds whose time is up at now.
ExpiredConsumables(cs, now) ==
    {c \in cs : c.purchasedAt = Null /\ c.expiresAt # Null /\ c.expiresAt <= now}

\* For every unit a sweep at now frees, the earliest queued reservation
\* (order # Null) of that shoppable that may now be promoted.
QueuedNotifications(cs, rs, now) ==
    {<<r.owner, r.shoppableId>> :
        r \in {q \in rs :
                 /\ q.order # Null
                 /\ Cardinality({p \in Queued(rs, q.shoppableId) : p.order < q.order})
                      < Cardinality(ConsOf(ExpiredConsumables(cs, now), q.shoppableId))}}

\* removeExpiredConsumables(prisma, now): the rows left, and the notifications.
removeExpiredConsumables(cs, rs, now) ==
    [consumables |-> cs \ ExpiredConsumables(cs, now),
     queuedNotifications |-> QueuedNotifications(cs, rs, now)]

\* ------------------------------------------------------ grace-window lottery
\* The winners become holds; each gets the database's next fresh row id.
RECURSIVE PromoteAll(_, _, _)
PromoteAll(cs, winners, now) ==
    IF winners = {} THEN cs
    ELSE LET w == CHOOSE x \in winners : \A y \in winners : x.id <= y.id
         IN PromoteAll(
              cs \cup {NewConsumable(FreshId(cs), w.owner, w.shoppableId,
                                     now + TIME_TO_BUY, Null)},
              winners \ {w}, now)

\* The units of t the lottery can still hand out.
RemainingStock(cs, t) == Max(0, shop[t].stock - Cardinality(ConsOf(cs, t)))

\* performLotteryIfNecessary(prisma, now, shoppableId): the ledgers it can
\* leave.  Nothing happens inside the window or without pooled reservations;
\* otherwise a random choice of as many pooled reservations as stock remains
\* is promoted and every pooled reservation is deleted.
performLotteryIfNecessary(cs, rs, now, t) ==
    IF InGraceWindow(now, t) \/ Pooled(rs, t) = {}
    THEN {[consumables |-> cs, reservations |-> rs]}
    ELSE LET pool == Pooled(rs, t)
             k == Min(Cardinality(pool), RemainingStock(cs, t))
         IN {[consumables |-> PromoteAll(cs, winners, now),
              reservations |-> rs \ pool] :
                winners \in {w \in SUBSET pool : Cardinality(w) = k}}

\* ensureState(prisma, now, shoppableId): the sweep, then the lottery if due.
ensureState(cs, rs, now, t) ==
    LET swept == removeExpiredConsumables(cs, rs, now)
    IN {[consumables |-> o.consumables, reservations |-> o.reservations,
         queuedNotifications |-> swept.queuedNotifications] :
            o \in performLotteryIfNecessary(swept.consumables, rs, now, t)}

\* The intents the provider has created so far.
UsedIntents == {i \in IntentIds : intents[i] # "none"}

\* ---------------------------------------------------------- addTicketToCart
IdleReq ==
    [pc |-> "idle", id |-> "-", t |-> "-", now |-> Null, nCons |-> Null,
     order |-> Null]

\* A step that returns nothing to a caller.
NoOut ==
    [kind |-> "none", status |-> "-", queuePosition |-> Null,
     queuedNotifications |-> {}, intent |-> Null, shoppableId |-> "-",
     pooled |-> Null, request |-> "-", amount |-> Null,
     idempotencyKey |-> "-"]

\* What an addTicketToCart call returned: an AddToCartStatus (with the
\* queuePosition of PutInQueue), or the error it threw.
Returned(status, pos) ==
    [NoOut EXCEPT !.kind = "addTicketToCart", !.status = status,
                  !.queuePosition = pos]

\* What a removeExpiredConsumables call returned: its queuedNotifications.
Swept(queuedNotifications) ==
    [NoOut EXCEPT !.queuedNotifications = queuedNotifications]

\* onPaymentSuccess has handled a confirmation of intent i that it had
\* handled before.
Redelivered(i) == [NoOut EXCEPT !.kind = "onPaymentSuccess", !.intent = i]

\* purchaseCart, called with the idempotency key request, has created
\* intent i at the provider with this amount and this idempotency key.
IntentCreated(i, request, amount, idempotencyKey) ==
    [NoOut EXCEPT !.kind = "purchaseCart", !.status = "Created", !.intent = i,
                  !.request = request, !.amount = amount,
                  !.idempotencyKey = idempotencyKey]

\* purchaseCart has failed: the provider has rejected the new intent.
ProviderError ==
    [NoOut EXCEPT !.kind = "purchaseCart", !.status = "ProviderError"]

\* afterGracePeriod has resolved shoppable t, which had this many pooled
\* reservations.
Resolved(t, pooled) ==
    [NoOut EXCEPT !.kind = "afterGracePeriod", !.shoppableId = t,
                  !.pooled = pooled]

Errors ==
    {"NotFound", "Closed", "NotOpen", "SoldOut", "AlreadyHas", "MaxAmount",
     "AlreadyReserved"}

\* The call in slot r ends: it throws err (its transaction rolls back, having
\* written nothing), or it returns.
Throw(r, err) ==
    /\ req' = [req EXCEPT ![r] = IdleReq]
    /\ out' = Returned(err, Null)
Return(r, status, pos) ==
    /\ req' = [req EXCEPT ![r] = IdleReq]
    /\ out' = Returned(status, pos)
\* The call in slot r goes on to its next statement.
Continue(r, q) ==
    /\ req' = [req EXCEPT ![r] = q]
    /\ out' = NoOut

\* The request slots are interchangeable: a new call takes the lowest idle one.
FreeSlot(r) ==
    /\ req[r].pc = "idle"
    /\ \A x \in Slots : x < r => req[x].pc # "idle"

\* const now = new Date()
Begin(r, id, t) ==
    /\ FreeSlot(r)
    /\ calls < MaxCalls
    /\ calls + Cardinality(UsedIntents) < MaxOps
    /\ calls' = calls + 1
    /\ Continue(r, [IdleReq EXCEPT !.pc = "ensure", !.id = id, !.t = t,
                                   !.now = clock])
    /\ UNCHANGED <<clock, shop, consumables, reservations, timer, intents>>

\* The first transaction: ensureState(prisma, now, ticketId).
EnsureState(r) ==
    /\ req[r].pc = "ensure"
    /\ \E o \in ensureState(consumables, reservations, req[r].now, req[r].t) :
          /\ consumables' = o.consumables
          /\ reservations' = o.reservations
          /\ out' = Swept(o.queuedNotifications)
    /\ req' = [req EXCEPT ![r].pc = "findTicket"]
    /\ UNCHANGED <<clock, shop, timer, intents, calls>>

\* Checks that let a sold-out ticket through.
TicketErrorBeforeSoldOut(cs, now, t) ==
    IF shop[t].removedAt # Null /\ ~(shop[t].removedAt > clock) THEN "NotFound"
    ELSE IF shop[t].availableTo # Null /\ shop[t].availableTo < now THEN "Closed"
    ELSE IF shop[t].availableFrom > now THEN "NotOpen"
    ELSE "-"

\* The error prisma.ticket.findUnique and the checks after it end in for a
\* request for t taken at now, or "-" when they all pass.
TicketError(cs, now, t) ==
    IF shop[t].removedAt # Null /\ ~(shop[t].removedAt > clock) THEN "NotFound"
    ELSE IF shop[t].availableTo # Null /\ shop[t].availableTo < now THEN "Closed"
    ELSE IF shop[t].availableFrom > now THEN "NotOpen"
    ELSE IF Cardinality(PurchasedOf(cs, t)) >= shop[t].stock THEN "SoldOut"
    ELSE "-"

\* The second transaction, first statement: the ticket with its shoppable,
\* the shoppable's consumables and the count of the purchased ones.
FindTicket(r) ==
    /\ req[r].pc = "findTicket"
    /\ LET q == req[r]
           e == TicketError(consumables, q.now, q.t)
       IN IF e # "-" THEN Throw(r, e)
          ELSE Continue(r, [q EXCEPT !.pc = "countCart",
                                     !.nCons = Cardinality(ConsOf(consumables, q.t))])
    /\ UNCHANGED <<clock, shop, consumables, reservations, timer, intents,
                   calls>>

\* checkUserMaxAmount, on the count of the buyer's consumables of the ticket.
MaxAmountError(currentlyInCart, maxAmountPerUser) ==
    IF maxAmountPerUser = 1 /\ currentlyInCart > 0 THEN "AlreadyHas"
    ELSE IF currentlyInCart >= maxAmountPerUser THEN "MaxAmount"
    ELSE "-"

CurrentlyInCart(cs, id, t) == Cardinality({c \in ConsOf(cs, t) : c.owner = id})

CountCart(r) ==
    /\ req[r].pc = "countCart"
    /\ LET q == req[r]
           e == MaxAmountError(CurrentlyInCart(consumables, q.id, q.t),
                               shop[q.t].maxAmountPerUser)
       IN IF e # "-" THEN Throw(r, e)
          ELSE Continue(r, [q EXCEPT !.pc = "countRes"])
    /\ UNCHANGED <<clock, shop, consumables, reservations, timer, intents,
                   calls>>

\* A branch that looks at the stock only, never at the window.
BranchByStock(now, t, nCons) ==
    IF nCons >= shop[t].stock THEN "queueFind" ELSE "create"

\* The branch addTicketToCart takes once checkUserMaxAmount has passed.
Branch(now, t, nCons) ==
    IF InGraceWindow(now, t) THEN "resFind"
    ELSE IF nCons >= shop[t].stock THEN "queueFind"
    ELSE "create"

CurrentlyReserved(rs, id, t) == Cardinality({x \in ResOf(rs, t) : x.owner = id})

\* checkUserMaxAmount, on the count of the buyer's reservations of the ticket.
CountRes(r) ==
    /\ req[r].pc = "countRes"
    /\ LET q == req[r]
       IN IF CurrentlyReserved(reservations, q.id, q.t) > 0
          THEN Throw(r, "AlreadyReserved")
          ELSE Continue(r, [q EXCEPT !.pc = Branch(q.now, q.t, q.nCons)])
    /\ UNCHANGED <<clock, shop, consumables, reservations, timer, intents,
                   calls>>

\* addReservationInReserveWindow, the lookup of any reservation of the buyer
\* (no shoppableId in the filter).
ExistingReservation(rs, id) == {x \in rs : x.owner = id}

ResFind(r) ==
    /\ req[r].pc = "resFind"
    /\ LET q == req[r]
       IN IF ExistingReservation(reservations, q.id) # {}
          THEN Throw(r, "AlreadyReserved")
          ELSE Continue(r, [q EXCEPT !.pc = "resCreate"])
    /\ UNCHANGED <<clock, shop, consumables, reservations, timer, intents,
                   calls>>

UnsetTimer == [state |-> "unset", due |-> Null]

\* gracePeriodTimeouts after a pooled reservation of t by a request taken at
\* now: setTimeout(afterGracePeriod, timeUntilGracePeriod) unless one is set.
ArmTimer(tm, now, t) ==
    IF tm[t].state = "unset"
    THEN [tm EXCEPT ![t] =
            [state |-> "armed",
             due |-> clock + (shop[t].availableFrom + GRACE_PERIOD_WINDOW - now)]]
    ELSE tm

\* addReservationInReserveWindow, the insert with order = null and the timer.
ResCreate(r) ==
    /\ req[r].pc = "resCreate"
    /\ LET q == req[r]
       IN /\ reservations' = reservations \cup
                {NewReservation(FreshId(reservations), q.id, q.t, Null)}
          /\ timer' = ArmTimer(timer, q.now, q.t)
    /\ Return(r, "Reserved", Null)
    /\ UNCHANGED <<clock, shop, consumables, intents, calls>>

\* addReservationInReserveWindow runs inside the callback of prisma.$transaction,
\* which commits after the callback has returned.  When that commit fails the
\* insert is rolled back and addTicketToCart throws, while setTimeout has
\* already been called.  (A failed commit of the other branches leaves nothing
\* behind and is not modelled.)
ResCreateAborts(r) ==
    /\ req[r].pc = "resCreate"
    /\ timer' = ArmTimer(timer, req[r].now, req[r].t)
    /\ Throw(r, "TransactionFailed")
    /\ UNCHANGED <<clock, shop, consumables, reservations, intents, calls>>

\* addToQueue: currentPeopleInQueue[0]?.order ?? -1 over all reservations of
\* the shoppable, sorted by order descending.  Where the database puts the
\* rows with order = null in that sort is the database's choice: first (the
\* result is then -1) or last.
LastInQueueOrders(rs, t) ==
    LET orders == {x.order : x \in Queued(rs, t)}
        largest == IF orders = {} THEN -1
                   ELSE CHOOSE o \in orders : \A p \in orders : p <= o
    IN IF Pooled(rs, t) # {} THEN {-1, largest} ELSE {largest}

QueueFind(r) ==
    /\ req[r].pc = "queueFind"
    /\ \E lastInQueueOrder \in LastInQueueOrders(reservations, req[r].t) :
          Continue(r, [req[r] EXCEPT !.pc = "queueCreate",
                                     !.order = lastInQueueOrder + 1])
    /\ UNCHANGED <<clock, shop, consumables, reservations, timer, intents,
                   calls>>

\* queuePosition: lastInQueueOrder + 2, with order = lastInQueueOrder + 1.
QueuePosition(order) == order + 1

\* addToQueue, the insert.
QueueCreate(r) ==
    /\ req[r].pc = "queueCreate"
    /\ LET q == req[r]
       IN /\ reservations' = reservations \cup
                {NewReservation(FreshId(reservations), q.id, q.t, q.order)}
          /\ Return(r, "PutInQueue", QueuePosition(q.order))
    /\ UNCHANGED <<clock, shop, consumables, timer, intents, calls>>

\* An insert that makes a hold with an expiry whatever the price.
CreatedHold(cs, id, t, now, price) ==
    NewConsumable(FreshId(cs), id, t, now + TIME_TO_BUY, Null)

\* An insert whose hold expires TIME_TO_BUY after the insert, not after the
\* call's now.
CreatedAtInsertTime(cs, id, t, now, price) ==
    IF price = 0
    THEN NewConsumable(FreshId(cs), id, t, Null, now)
    ELSE NewConsumable(FreshId(cs), id, t, clock + TIME_TO_BUY, Null)

\* The consumable addTicketToCart creates for a ticket of the given price:
\* a free one is purchased at once, a paid one is a hold.
CreatedConsumable(cs, id, t, now, price) ==
    IF price = 0
    THEN NewConsumable(FreshId(cs), id, t, Null, now)
    ELSE NewConsumable(FreshId(cs), id, t, now + TIME_TO_BUY, Null)

CreatedStatus(price) == IF price = 0 THEN "AddedToInventory" ELSE "AddedToCart"

Create(r) ==
    /\ req[r].pc = "create"
    /\ LET q == req[r]
       IN /\ consumables' = consumables \cup
                {CreatedConsumable(consumables, q.id, q.t, q.now, shop[q.t].price)}
          /\ Return(r, CreatedStatus(shop[q.t].price), Null)
    /\ UNCHANGED <<clock, shop, reservations, timer, intents, calls>>

\* ------------------------------------------------------- afterGracePeriod
\* A lottery that ignores the remaining stock and promotes the whole pool.
PromoteWholePool(cs, rs, now, t) ==
    {[consumables |-> PromoteAll(cs, Pooled(rs, t), now),
      reservations |-> rs \ Pooled(rs, t)]}

\* A lottery that promotes its winners and leaves the reservations in place.
LotteryKeepingReservations(cs, rs, now, t) ==
    {[consumables |-> o.consumables, reservations |-> rs] :
        o \in performLotteryIfNecessary(cs, rs, now, t)}

\* The timer callback: performLotteryIfNecessary(prisma, new Date(), id) in
\* a transaction of its own; what it leaves of the ledger.
afterGracePeriod(cs, rs, now, t) == performLotteryIfNecessary(cs, rs, now, t)

AfterGracePeriod(t) ==
    /\ timer[t].state = "armed"
    /\ clock >= timer[t].due
    /\ \E o \in afterGracePeriod(consumables, reservations, clock, t) :
          /\ consumables' = o.consumables
          /\ reservations' = o.reservations
    /\ timer' = [timer EXCEPT ![t] = [state |-> "fired", due |-> Null]]
    /\ out' = Resolved(t, Cardinality(Pooled(reservations, t)))
    /\ UNCHANGED <<clock, shop, req, intents, calls>>

\* A failed resolution that has deleted the pool before it threw.
PoolDeletedBeforeThrow(cs, rs, now, t) ==
    [consumables |-> cs, reservations |-> rs \ Pooled(rs, t)]

\* What the callback leaves of the ledger when its transaction throws: the
\* transaction is rolled back, and the catch logs the error.
afterGracePeriodCaught(cs, rs, now, t) ==
    [consumables |-> cs, reservations |-> rs]

AfterGracePeriodThrows(t) ==
    /\ timer[t].state = "armed"
    /\ clock >= timer[t].due
    /\ LET o == afterGracePeriodCaught(consumables, reservations, clock, t)
       IN /\ consumables' = o.consumables
          /\ reservations' = o.reservations
    /\ timer' = [timer EXCEPT ![t] = [state |-> "failed", due |-> Null]]
    /\ out' = NoOut
    /\ UNCHANGED <<clock, shop, req, intents, calls>>

\* ------------------------------------------------------------------ getCart
\* A sweep that reports every queued reservation, whatever it has freed.
SweepReportingWholeQueue(cs, rs, now) ==
    [consumables |-> cs \ ExpiredConsumables(cs, now),
     queuedNotifications |->
        {<<q.owner, q.shoppableId>> : q \in {x \in rs : x.order # Null}}]

\* A sweep that deletes whatever has an expiry in the past, purchased or not.
SweepIgnoringPurchase(cs, rs, now) ==
    [consumables |-> {c \in cs : c.expiresAt = Null \/ c.expiresAt > now},
     queuedNotifications |-> QueuedNotifications(cs, rs, now)]

\* A sweep that deletes the expired holds and reports nobody.
SweepReportingNobody(cs, rs, now) ==
    [consumables |-> cs \ ExpiredConsumables(cs, now),
     queuedNotifications |-> {}]

\* A sweep that spares the holds that expire at this very now.
SweepStrictlyBefore(cs, rs, now) ==
    [consumables |-> {c \in cs : ~(/\ c.purchasedAt = Null
                                   /\ c.expiresAt # Null
                                   /\ c.expiresAt < now)},
     queuedNotifications |-> QueuedNotifications(cs, rs, now)]

\* const now = new Date(); removeExpiredConsumables(authorizedPrismaClient,
\* now), whose queuedNotifications go to withHandledNotificationQueue.
GetCartSweep(cs, rs, now) == removeExpiredConsumables(cs, rs, now)

\* A notification handler whose failure undoes the sweep.
UndoneByNotificationError(before, after, handled) ==
    IF handled THEN after ELSE before

\* withHandledNotificationQueue(queuedNotifications): the ledger once the
\* handler has run on the list of a sweep that took the ledger from before to
\* after.  The handler sends the notifications out-of-band; whether it has
\* handled them or failed, it leaves the ledger as the sweep left it.
withHandledNotificationQueue(before, after, handled) == after

\* What getCart has swept and handed to the notification handler, which has
\* handled the list or failed on it.
SweptAndNotified(queuedNotifications, handled) ==
    [Swept(queuedNotifications) EXCEPT
        !.status = IF handled THEN "-" ELSE "NotificationError"]

\* A cart that is not filtered by the Identification.
CartOfAnybody(cs, rs, id, now) ==
    [inCart |-> {c \in cs : /\ (c.expiresAt > now \/ c.expiresAt = Null)
                            /\ c.purchasedAt = Null},
     reservations |-> rs]

\* What getCart(id) returns at now, from the ledger as its sweep left it: the
\* unpurchased consumables of id that have not expired, and the reservations
\* of id.  (Every shoppable of the model is a ticket.)
getCart(cs, rs, id, now) ==
    [inCart |-> {c \in cs : /\ c.owner = id
                            /\ (c.expiresAt > now \/ c.expiresAt = Null)
                            /\ c.purchasedAt = Null},
     reservations |-> {x \in rs : x.owner = id}]

GetCart(id) ==
    /\ LET res == GetCartSweep(consumables, reservations, clock)
       IN \E handled \in {h \in BOOLEAN : res.queuedNotifications = {} => h} :
             /\ consumables' =
                   withHandledNotificationQueue(consumables, res.consumables,
                                                handled)
             /\ out' = SweptAndNotified(res.queuedNotifications, handled)
    /\ UNCHANGED <<clock, shop, reservations, req, timer, intents, calls>>

\* A sweep that reports its notifications although its deletes are undone.
ReportedThoughRolledBack(cs, rs, now) ==
    [consumables |-> cs, queuedNotifications |-> QueuedNotifications(cs, rs, now)]

\* The sweep of getCart throws and its deletes are rolled back: the promise
\* of removeExpiredConsumables rejects, and there is no list to hand over.
SweepRolledBack(cs, rs, now) ==
    [consumables |-> cs, queuedNotifications |-> {}]

GetCartSweepFails(id) ==
    /\ ExpiredConsumables(consumables, clock) # {}
    /\ LET res == SweepRolledBack(consumables, reservations, clock)
       IN /\ consumables' = res.consumables
          /\ out' = [Swept(res.queuedNotifications) EXCEPT !.status = "SweepError"]
    /\ UNCHANGED <<clock, shop, reservations, req, timer, intents, calls>>

\* ------------------------------------------------------------- purchaseCart
\* The holds in the cart of id at now.
CartOf(cs, id, now) ==
    {c \in cs : /\ c.owner = id
                /\ c.purchasedAt = Null
                /\ (c.expiresAt = Null \/ c.expiresAt > now)}

\* A purchaseCart that leaves the old intent of the cart alive.
KeepOld(its, cart) == its

\* The provider's intents after the unresolved ones of the cart are cancelled.
CancelOld(its, cart) ==
    [i \in IntentIds |->
        IF its[i] = "live" /\ \E c \in cart : c.stripeIntentId = i
        THEN "cancelled" ELSE its[i]]

UnusedIntents == IntentIds \ UsedIntents

\* The idempotency keys a caller may pass.
IdempotencyKeys == {"k1", "k2"}

\* The fee passed through to the buyer, and the price with it.
transactionFee(price) == price \div 20
priceWithTransactionFee(price) == price + transactionFee(price)

\* The sum of the prices of the shoppables of the consumables in cart.
RECURSIVE CartPrice(_)
CartPrice(cart) ==
    IF cart = {} THEN 0
    ELSE LET c == CHOOSE x \in cart : TRUE
         IN shop[c.shoppableId].price + CartPrice(cart \ {c})

\* An amount that charges one item of the cart only.
OneItemAmount(cart) ==
    IF cart = {} THEN 0
    ELSE priceWithTransactionFee(shop[(CHOOSE c \in cart : TRUE).shoppableId].price)

\* The amount purchaseCart asks the provider for.
IntentAmount(cart) == priceWithTransactionFee(CartPrice(cart))

\* The idempotency key purchaseCart hands to the provider.
ProviderKey(idempotencyKey) == idempotencyKey

\* The cart after the intent id has been stored on its holds.
WithIntent(cs, cart, i) ==
    (cs \ cart) \cup {[c EXCEPT !.stripeIntentId = i] : c \in cart}

\* purchaseCart(prisma, identification, idempotencyKey): cancel the cart's
\* unresolved intent, create a new one, store its id on the cart's holds.
PurchaseCart(id, idempotencyKey) ==
    LET cart == CartOf(consumables, id, clock)
    IN /\ cart # {}
       /\ UnusedIntents # {}
       /\ calls + Cardinality(UsedIntents) < MaxOps
       /\ LET new == CHOOSE i \in UnusedIntents : \A j \in UnusedIntents : i <= j
          IN /\ intents' = [CancelOld(intents, cart) EXCEPT ![new] = "live"]
             /\ consumables' = WithIntent(consumables, cart, new)
             /\ out' = IntentCreated(new, idempotencyKey, IntentAmount(cart),
                                     ProviderKey(idempotencyKey))
       /\ UNCHANGED <<clock, shop, reservations, req, timer, calls>>

\* A failure that has already wiped the intent id off the cart's holds.
WipedCart(cs, cart) == WithIntent(cs, cart, Null)

\* The consumables after the provider has rejected the new intent: nothing
\* has been stored yet.
AfterProviderError(cs, cart) == cs

\* The provider rejects the new intent: the call fails, the ledger is as it was.
PurchaseCartRejected(id) ==
    LET cart == CartOf(consumables, id, clock)
    IN /\ cart # {}
       /\ intents' = CancelOld(intents, cart)
       /\ consumables' = AfterProviderError(consumables, cart)
       /\ out' = ProviderError
       /\ UNCHANGED <<clock, shop, reservations, req, timer, calls>>

\* The buyer pays the intent at the provider.
Pay(i) ==
    /\ intents[i] = "live"
    /\ intents' = [intents EXCEPT ![i] = "succeeded"]
    /\ out' = NoOut
    /\ UNCHANGED <<clock, shop, consumables, reservations, req, timer, calls>>

\* A confirmation that stamps every consumable of the intent anew.
MarkAgain(cs, i, now) ==
    {IF c.stripeIntentId = i THEN [c EXCEPT !.purchasedAt = now] ELSE c :
        c \in cs}

\* A confirmation that stamps every unpurchased consumable in the table.
MarkWholeTable(cs, i, now) ==
    {IF c.purchasedAt = Null THEN [c EXCEPT !.purchasedAt = now] ELSE c :
        c \in cs}

\* onPaymentSuccess(intent): purchasedAt = now on the unpurchased
\* consumables that carry the intent id.
MarkPurchased(cs, i, now) ==
    {IF c.stripeIntentId = i /\ c.purchasedAt = Null
     THEN [c EXCEPT !.purchasedAt = now] ELSE c : c \in cs}

\* The webhook delivers the confirmation of a paid intent, once or again.
OnPaymentSuccess(i) ==
    /\ intents[i] \in {"succeeded", "delivered"}
    /\ consumables' = MarkPurchased(consumables, i, clock)
    /\ intents' = [intents EXCEPT ![i] = "delivered"]
    /\ out' = IF intents[i] = "delivered" THEN Redelivered(i) ELSE NoOut
    /\ UNCHANGED <<clock, shop, reservations, req, timer, calls>>

\* ---------------------------------------------------------------- the clock
Tick ==
    /\ clock < MaxTime
    /\ \A r \in Slots : req[r].pc # "idle" => clock + 1 - req[r].now <= MaxLag
    /\ clock' = clock + 1
    /\ out' = NoOut
    /\ UNCHANGED <<shop, consumables, reservations, req, timer, intents, calls>>

\* ------------------------------------------------------- the specification
Init ==
    /\ clock = 0
    /\ shop \in ShopConfigs
    /\ consumables = {}
    /\ reservations = {}
    /\ req = [r \in Slots |-> IdleReq]
    /\ timer = [t \in Tickets |-> UnsetTimer]
    /\ intents = [i \in IntentIds |-> "none"]
    /\ out = NoOut
    /\ calls = 0

Next ==
    \/ \E r \in Slots, id \in Ids, t \in Tickets : Begin(r, id, t)
    \/ \E r \in Slots : EnsureState(r)
    \/ \E r \in Slots : FindTicket(r)
    \/ \E r \in Slots : CountCart(r)
    \/ \E r \in Slots : CountRes(r)
    \/ \E r \in Slots : ResFind(r)
    \/ \E r \in Slots : ResCreate(r)
    \/ \E r \in Slots : ResCreateAborts(r)
    \/ \E r \in Slots : QueueFind(r)
    \/ \E r \in Slots : QueueCreate(r)
    \/ \E r \in Slots : Create(r)
    \/ \E t \in Tickets : AfterGracePeriod(t)
    \/ \E t \in Tickets : AfterGracePeriodThrows(t)
    \/ \E id \in Ids : GetCart(id)
    \/ \E id \in Ids : GetCartSweepFails(id)
    \/ \E id \in Ids, k \in IdempotencyKeys : PurchaseCart(id, k)
    \/ \E id \in Ids : PurchaseCartRejected(id)
    \/ \E i \in IntentIds : Pay(i)
    \/ \E i \in IntentIds : OnPaymentSuccess(i)
    \/ Tick

Spec == Init /\ [][Next]_vars

\* ------------------------------------- the specification of the schedule
\* The admissions and the timers alone, with what the runtime guarantees: a
\* call that has begun runs each of its statements, a timer that is due
\* runs its callback, and time passes.  Whether anybody calls addTicketToCart
\* again is up to the buyers: nothing guarantees it.
Admission(r) ==
    \/ EnsureState(r)
    \/ FindTicket(r)
    \/ CountCart(r)
    \/ CountRes(r)
    \/ ResFind(r)
    \/ ResCreate(r)
    \/ ResCreateAborts(r)
    \/ QueueFind(r)
    \/ QueueCreate(r)
    \/ Create(r)

TimerFires(t) == AfterGracePeriod(t) \/ AfterGracePeriodThrows(t)

NextScheduled ==
    \/ \E r \in Slots, id \in Ids, t \in Tickets : Begin(r, id, t)
    \/ \E r \in Slots : Admission(r)
    \/ \E t \in Tickets : TimerFires(t)
    \/ Tick

SpecScheduled ==
    /\ Init
    /\ [][NextScheduled]_vars
    /\ \A r \in Slots : WF_vars(Admission(r))
    /\ \A t \in Tickets : WF_vars(TimerFires(t))
    /\ WF_vars(Tick)

\* ============================================================== the claims

\* The consumables of t that take up a unit at now: purchased, without an
\* expiry, or held and not yet expired.
Outstanding(cs, t, now) ==
    {c \in ConsOf(cs, t) :
        c.purchasedAt # Null \/ c.expiresAt = Null \/ c.expiresAt > now}

\* C1: for every Shoppable, the number of its Consumables with purchasedAt
\* set (free items included) is at most its stock, in every reachable state.
PurchasedNeverExceedsStock ==
    \A t \in Tickets : Cardinality(PurchasedOf(consumables, t)) <= shop[t].stock

\* The step is the insert of the consumable by the call in slot r.
CreateStep(r) ==
    /\ req[r].pc = "create"
    /\ req'[r].pc = "idle"
    /\ out'.kind = "addTicketToCart"

\* C2: a request never obtains a unit (AddedToCart or AddedToInventory) of a
\* Shoppable whose units are all taken by unexpired Consumables of other
\* Identifications: of two concurrent requests for the last unit at most one
\* gets it.
NoTwoAdmissionsForLastUnit ==
    [][\A r \in Slots :
          CreateStep(r) =>
            Cardinality({c \in Outstanding(consumables, req[r].t, clock) :
                            c.owner # req[r].id}) < shop[req[r].t].stock]_vars

\* C3: no Identification ever has more than maxAmountPerUser Consumables of
\* one Shoppable.
NoIdExceedsMaxAmount ==
    \A id \in Ids, t \in Tickets :
        CurrentlyInCart(consumables, id, t) <= shop[t].maxAmountPerUser


\* ------------------------------------------------- grace-window resolution
\* The step is the timer's afterGracePeriod on shoppable t.
TimerStep(t) == timer[t].state = "armed" /\ timer'[t].state = "fired"

\* The rows a step has inserted into the Consumable table.
Inserted == consumables' \ consumables

\* C4: the resolution of a shoppable with P pooled reservations and R units
\* of remaining stock turns exactly min(P, R) of them into holds of their
\* owners (expiresAt = now + TIME_TO_BUY, purchasedAt null), touches no other
\* consumable, and deletes all P pooled reservations and nothing else.
LotteryPromotesMinAndDeletesPool ==
    [][\A t \in Tickets :
          TimerStep(t) =>
            LET pool == Pooled(reservations, t)
                R == RemainingStock(consumables, t)
            IN /\ consumables \subseteq consumables'
               /\ Cardinality(Inserted) = Min(Cardinality(pool), R)
               /\ \A c \in Inserted :
                     /\ c.shoppableId = t
                     /\ c.expiresAt = clock + TIME_TO_BUY
                     /\ c.purchasedAt = Null
                     /\ \E p \in pool : p.owner = c.owner
               /\ \A p \in pool :
                     Cardinality({c \in Inserted : c.owner = p.owner})
                       <= Cardinality({q \in pool : q.owner = p.owner})
               /\ reservations' = reservations \ pool]_vars

\* The timer has just resolved two pooled reservations of a shoppable with
\* stock 1: one hold exists and no reservation is left.
TwoPooledOneUnitResolved ==
    /\ out.kind = "afterGracePeriod"
    /\ out.pooled = 2
    /\ shop[out.shoppableId].stock = 1
    /\ Cardinality(ConsOf(consumables, out.shoppableId)) = 1
    /\ ResOf(reservations, out.shoppableId) = {}

\* C5: a second resolution of a shoppable straight after a first one (the
\* timer's, or ensureState's in an addTicketToCart past the window), be it
\* the timer's or ensureState's at the same or any later time, changes no
\* consumable and no reservation: the timer's leaves the ledger as it is,
\* ensureState's leaves what its expiry sweep alone leaves.
EnsureResolves(r) ==
    /\ req[r].pc = "ensure"
    /\ req'[r].pc = "findTicket"
    /\ ~InGraceWindow(req[r].now, req[r].t)

SecondResolutionIsNoOp(t) ==
    \A now2 \in clock .. MaxTime + 1 :
        /\ afterGracePeriod(consumables', reservations', now2, t)
             = {[consumables |-> consumables', reservations |-> reservations']}
        /\ \A o \in ensureState(consumables', reservations', now2, t) :
              /\ o.reservations = reservations'
              /\ o.consumables =
                   removeExpiredConsumables(consumables', reservations',
                                            now2).consumables

ResolutionIsIdempotent ==
    [][/\ \A t \in Tickets : TimerStep(t) => SecondResolutionIsNoOp(t)
       /\ \A r \in Slots : EnsureResolves(r) => SecondResolutionIsNoOp(req[r].t)]_vars

\* The timer has just resolved a non-empty pool, which ensureState will find
\* resolved.
PoolResolvedByTimer ==
    /\ out.kind = "afterGracePeriod"
    /\ out.pooled > 0
    /\ \E c \in consumables : c.shoppableId = out.shoppableId



\* ------------------------------------------------------------- expiry sweep
\* The step is what getCart's sweep does at the current time.
GetCartStep ==
    /\ consumables' = GetCartSweep(consumables, reservations, clock).consumables
    /\ out' = Swept(GetCartSweep(consumables, reservations, clock).queuedNotifications)
    /\ UNCHANGED <<clock, reservations, req, timer, intents, calls>>

\* The holds of cs that a sweep at now2 deletes.
DeletedBySweepAt(cs, rs, now2) == cs \ GetCartSweep(cs, rs, now2).consumables

\* C6 as stated: a second sweep straight after getCart's, with the same or
\* any later now, deletes no consumable and reports no queued notification.
SecondSweepAtAnyLaterNowIsNoOp ==
    [][GetCartStep =>
         \A now2 \in clock .. MaxTime + 1 :
            /\ DeletedBySweepAt(consumables', reservations', now2) = {}
            /\ GetCartSweep(consumables', reservations', now2).queuedNotifications
                 = {}]_vars

\* C6 amended: a second sweep straight after getCart's with the same now
\* deletes no consumable and reports no queued notification; with a later
\* now it deletes exactly the unpurchased holds whose expiresAt lies after
\* the first now and not after the second.
SecondSweepAtSameNowIsNoOp ==
    [][GetCartStep =>
         /\ DeletedBySweepAt(consumables', reservations', clock) = {}
         /\ GetCartSweep(consumables', reservations', clock).queuedNotifications
              = {}
         /\ \A now2 \in clock .. MaxTime + 1 :
               DeletedBySweepAt(consumables', reservations', now2)
                 = {c \in consumables' :
                       /\ c.purchasedAt = Null
                       /\ c.expiresAt # Null
                       /\ clock < c.expiresAt
                       /\ c.expiresAt <= now2}]_vars

\* getCart has just swept an expired hold with a queue behind it (no
\* addTicketToCart stands right behind its ensureState).
GetCartHasSwept ==
    /\ out.kind = "none"
    /\ out.queuedNotifications # {}
    /\ \A r \in Slots : req[r].pc # "findTicket"

\* ---------------------------------------------------------- onPaymentSuccess
\* C7: a second delivery of the confirmation of an intent raises no error
\* and leaves every consumable, hence the set of the purchased ones and each
\* purchasedAt, as the first delivery left it.
SecondConfirmationIsNoOp ==
    [][\A i \in IntentIds :
          (intents[i] = "delivered" /\ out'.kind = "onPaymentSuccess"
             /\ out'.intent = i)
          => /\ consumables' = consumables
             /\ intents' = intents]_vars

\* The confirmation of an intent has just been delivered again, later than
\* the time its consumable was marked purchased.
ConfirmationRedeliveredLater ==
    /\ out.kind = "onPaymentSuccess"
    /\ \E c \in consumables :
          /\ c.stripeIntentId = out.intent
          /\ c.purchasedAt # Null
          /\ c.purchasedAt < clock


\* -------------------------------------------------------------- the queue
\* The call in slot r returns from addToQueue.
QueueStep(r) ==
    /\ req[r].pc = "queueCreate"
    /\ req'[r].pc = "idle"
    /\ out'.status = "PutInQueue"

\* C8: an addTicketToCart that finds every unit of the shoppable taken puts
\* one queued reservation of the entrant into the table and returns
\* PutInQueue with the entrant's 1-indexed position in the queue: the number
\* of queued reservations of the shoppable ahead of it, plus one.
QueuePositionIsTruePosition ==
    [][\A r \in Slots :
          QueueStep(r) =>
            /\ \E x \in reservations' \ reservations :
                  /\ reservations' = reservations \cup {x}
                  /\ x.owner = req[r].id
                  /\ x.shoppableId = req[r].t
                  /\ x.order # Null
            /\ out'.queuePosition
                 = Cardinality(Queued(reservations, req[r].t)) + 1]_vars


\* The step is the sweep of ensureState in the addTicketToCart of slot r.
EnsureStep(r) == req[r].pc = "ensure" /\ req'[r].pc = "findTicket"

\* A sweep at now has deleted every hold expired by then and has reported,
\* for each such hold with a queued reservation of another Identification
\* behind it, the owner of the earliest-ordered queued reservation.
SweepDeletesAndReports(now) ==
    \A c \in ExpiredConsumables(consumables, now) :
        /\ c \notin consumables'
        /\ LET queue == Queued(reservations, c.shoppableId)
           IN (\E q \in queue : q.owner # c.owner) =>
                \A q \in queue :
                    (\A p \in queue : q.order <= p.order) =>
                       <<q.owner, c.shoppableId>> \in out'.queuedNotifications

CallEnds(r) == req[r].pc # "idle" /\ req'[r].pc = "idle"

\* The number of consumables of its shoppable the call in slot r reads.
ReadCount(r) ==
    IF req[r].pc \in {"ensure", "findTicket"}
    THEN Cardinality(ConsOf(consumables, req[r].t))
    ELSE req[r].nCons

\* The call in slot r is for a free item past its grace window, not closed,
\* with fewer consumables than stock.
FreeAndAvailable(r) ==
    LET t == req[r].t
    IN /\ shop[t].price = 0
       /\ ~InGraceWindow(req[r].now, t)
       /\ (shop[t].availableTo = Null \/ shop[t].availableTo >= req[r].now)
       /\ ReadCount(r) < shop[t].stock

\* The call in slot r returns AddedToInventory, having created exactly one
\* consumable: the buyer's, purchased at the call's now, without expiry.
GrantedAtOnce(r) ==
    /\ out'.status = "AddedToInventory"
    /\ \E c \in consumables' \ consumables :
          /\ consumables' = consumables \cup {c}
          /\ c.owner = req[r].id
          /\ c.shoppableId = req[r].t
          /\ c.purchasedAt = req[r].now
          /\ c.expiresAt = Null

PurchasedIsFinal ==
    [][\A c \in consumables :
          c.purchasedAt # Null =>
            \E d \in consumables' :
               /\ d.id = c.id
               /\ d.owner = c.owner
               /\ d.shoppableId = c.shoppableId
               /\ d.purchasedAt # Null]_vars

\* A purchased consumable whose expiresAt lies in the past is in the table
\* after a further confirmation of its intent.
PurchasedOutlivesExpiry ==
    /\ out.kind = "onPaymentSuccess"
    /\ \E c \in consumables :
          /\ c.purchasedAt # Null
          /\ c.expiresAt # Null
          /\ c.expiresAt <= clock

\* C12: there is at most one ConsumableReservation per (Identification,
\* Shoppable) pair in every reachable state.
OneReservationPerPair ==
    \A id \in Ids, t \in Tickets : CurrentlyReserved(reservations, id, t) <= 1


\* ------------------------------------------------------------ purchaseCart
\* The step is a purchaseCart that has created an intent.
PurchaseStep == out'.kind = "purchaseCart" /\ out'.status = "Created"

\* The live intents carried by the holds in the cart of id.
LiveIntentsOfCart(id) ==
    {i \in IntentIds :
        /\ intents[i] = "live"
        /\ \E c \in CartOf(consumables, id, clock) : c.stripeIntentId = i}

PurchaseCreatesOneIntentForCart ==
    [][PurchaseStep =>
         \E id \in Ids :
            LET cart == CartOf(consumables, id, clock)
                new == out'.intent
            IN /\ cart # {}
               /\ {i \in IntentIds : intents[i] = "none" /\ intents'[i] # "none"}
                    = {new}
               /\ out'.amount = priceWithTransactionFee(CartPrice(cart))
               /\ out'.idempotencyKey = out'.request
               /\ \A c \in cart :
                     [c EXCEPT !.stripeIntentId = new] \in consumables'
               /\ \A d \in consumables' :
                     d.stripeIntentId = new =>
                        d.owner = id /\ \E c \in cart : c.id = d.id
               /\ consumables \ cart \subseteq consumables'
               /\ Cardinality(consumables') = Cardinality(consumables)]_vars

\* purchaseCart has just created an intent for a cart of two holds.
TwoItemCartPurchased ==
    /\ out.kind = "purchaseCart"
    /\ out.status = "Created"
    /\ Cardinality({c \in consumables : c.stripeIntentId = out.intent}) = 2
    /\ out.amount > 0

\* ---------------------------------------------------------- onPaymentSuccess
\* The step is a delivery of the confirmation of intent i.
DeliveryStep(i) ==
    /\ intents'[i] = "delivered"
    /\ \/ intents[i] = "succeeded"
       \/ out'.kind = "onPaymentSuccess" /\ out'.intent = i

\* C15: a delivery of the confirmation of intent I stamps, in one step,
\* every unpurchased consumable that carries I with the time of the call, and
\* leaves every other consumable as it is.
ConfirmationMarksExactlyTheIntent ==
    [][\A i \in IntentIds :
          DeliveryStep(i) =>
            /\ \A c \in consumables :
                  IF c.stripeIntentId = i /\ c.purchasedAt = Null
                  THEN [c EXCEPT !.purchasedAt = clock] \in consumables'
                  ELSE c \in consumables'
            /\ Cardinality(consumables') = Cardinality(consumables)
            /\ \A d \in consumables' :
                  d.stripeIntentId = i => d.purchasedAt # Null]_vars

\* An intent has been confirmed and its consumable is purchased, while a
\* hold that does not carry it is still unpurchased.
ConfirmedBesideOtherHold ==
    \E i \in IntentIds :
        /\ intents[i] = "delivered"
        /\ \E c \in consumables : c.stripeIntentId = i /\ c.purchasedAt # Null
        /\ \E c \in consumables : c.stripeIntentId # i /\ c.purchasedAt = Null

\* ----------------------------------------------------------- provider error
\* C16: when the provider rejects the creation of the intent, purchaseCart
\* fails and no consumable is modified or deleted.
ProviderErrorLeavesLedger ==
    [][(out'.kind = "purchaseCart" /\ out'.status = "ProviderError")
         => /\ consumables' = consumables
            /\ reservations' = reservations]_vars

\* purchaseCart has just failed at the provider for a cart whose hold is
\* still there, carrying the id of the intent that was cancelled first.
PurchaseFailedAfterCancel ==
    /\ out.kind = "purchaseCart"
    /\ out.status = "ProviderError"
    /\ \E c \in consumables :
          /\ c.purchasedAt = Null
          /\ c.stripeIntentId # Null
          /\ intents[c.stripeIntentId] = "cancelled"


\* ------------------------------------------------------ the admission window
\* The call in slot r takes its step from the given statement.
StepFrom(r, pc) == req[r].pc = pc /\ req'[r].pc # pc

\* The call in slot r ends with an error and the tables are as they were.
Rejected(r) ==
    /\ req'[r].pc = "idle"
    /\ out'.status \in Errors
    /\ consumables' = consumables
    /\ reservations' = reservations

\* The shoppable is outside its sale window at now, or sold out.
OutsideWindowOrSoldOut(now, t) ==
    \/ now < shop[t].availableFrom
    \/ (shop[t].availableTo # Null /\ now > shop[t].availableTo)
    \/ Cardinality(PurchasedOf(consumables, t)) >= shop[t].stock

\* C17 as stated: addTicketToCart fails, creating nothing, whenever the
\* shoppable has removedAt set, now is before availableFrom or after a
\* non-null availableTo, or the purchased count is at least stock.
RejectedWheneverRemovedAtSet ==
    [][\A r \in Slots :
          (StepFrom(r, "findTicket")
             /\ (shop[req[r].t].removedAt # Null
                   \/ OutsideWindowOrSoldOut(req[r].now, req[r].t)))
          => Rejected(r)]_vars

\* C17 amended: it does so whenever removedAt is set and not later than the
\* time of the lookup, now is before availableFrom or after a non-null
\* availableTo, or the purchased count is at least stock.
RejectedWhenRemovedOrUnavailable ==
    [][\A r \in Slots :
          (StepFrom(r, "findTicket")
             /\ (\/ /\ shop[req[r].t].removedAt # Null
                      /\ shop[req[r].t].removedAt <= clock
                   \/ OutsideWindowOrSoldOut(req[r].now, req[r].t)))
          => Rejected(r)]_vars

\* A call for a removed ticket has just failed.
RemovedTicketRejected ==
    /\ out.kind = "addTicketToCart"
    /\ out.status = "NotFound"
    /\ \E t \in Tickets : shop[t].removedAt # Null /\ shop[t].removedAt <= clock

\* The admission window state of 4.1, decided in the order NotYetOpen,
\* Closed, SoldOut, GraceWindow, Open.
WindowState(now, t, purchasedCount) ==
    IF now < shop[t].availableFrom THEN "NotYetOpen"
    ELSE IF shop[t].availableTo # Null /\ now > shop[t].availableTo THEN "Closed"
    ELSE IF purchasedCount >= shop[t].stock THEN "SoldOut"
    ELSE IF now - shop[t].availableFrom < GRACE_PERIOD_WINDOW THEN "GraceWindow"
    ELSE "Open"

\* The error addTicketToCart throws for a window state that rejects.
WindowError(w) ==
    IF w = "NotYetOpen" THEN "NotOpen" ELSE w

\* C18: the window state is decided in the order NotYetOpen, Closed,
\* SoldOut, GraceWindow, Open, and addTicketToCart follows it: a call for a
\* shoppable that is not removed is rejected with the error of a rejecting
\* state (sold out also inside the grace window) and goes on otherwise; a
\* call that passes checkUserMaxAmount is pooled exactly when now is in the
\* grace window, and a pooled call never queues, holds or grants.
BranchFollowsWindowState ==
    [][\A r \in Slots :
          LET t == req[r].t
              w == WindowState(req[r].now, t,
                               Cardinality(PurchasedOf(consumables, t)))
          IN /\ (StepFrom(r, "findTicket")
                   /\ ~(shop[t].removedAt # Null /\ shop[t].removedAt <= clock))
                => IF w \in {"NotYetOpen", "Closed", "SoldOut"}
                   THEN req'[r].pc = "idle" /\ out'.status = WindowError(w)
                   ELSE req'[r].pc = "countCart"
             /\ (StepFrom(r, "countRes") /\ req'[r].pc # "idle")
                => (InGraceWindow(req[r].now, t) <=> req'[r].pc = "resFind")
             /\ (StepFrom(r, "resFind") \/ StepFrom(r, "resCreate"))
                => /\ consumables' = consumables
                   /\ out'.status \notin
                        {"PutInQueue", "AddedToCart", "AddedToInventory"}]_vars

\* ------------------------------------------------------ pooled reservations
\* C19: a call that passes all checks while 0 <= now - availableFrom <
\* GRACE_PERIOD_WINDOW goes to addReservationInReserveWindow, which (its
\* transaction committing) returns Reserved having created exactly one
\* reservation with order = null for the Identification and the shoppable,
\* and no consumable.
GraceWindowRequestIsPooled ==
    [][\A r \in Slots :
          /\ (StepFrom(r, "countRes") /\ req'[r].pc # "idle"
                /\ 0 <= req[r].now - shop[req[r].t].availableFrom
                /\ req[r].now - shop[req[r].t].availableFrom < GRACE_PERIOD_WINDOW)
             => req'[r].pc = "resFind"
          /\ (StepFrom(r, "resFind") /\ req'[r].pc # "idle")
             => req'[r].pc = "resCreate"
          /\ (StepFrom(r, "resCreate") /\ out'.status # "TransactionFailed")
             => /\ req'[r].pc = "idle"
                /\ out'.status = "Reserved"
                /\ consumables' = consumables
                /\ \E x \in reservations' \ reservations :
                      /\ reservations' = reservations \cup {x}
                      /\ x.owner = req[r].id
                      /\ x.shoppableId = req[r].t
                      /\ x.order = Null]_vars

\* A call has just returned Reserved and its pooled reservation is in the
\* table.
ReservedInGraceWindow ==
    /\ out.status = "Reserved"
    /\ \E x \in reservations : x.order = Null

\* The shoppables an Identification has a pooled reservation for.
PooledShoppables(id) ==
    {x.shoppableId : x \in {y \in reservations : y.owner = id /\ y.order = Null}}

\* C20: in the grace window a call by an Identification that has any
\* reservation at all, for whatever shoppable, fails with the
\* already-reserved error and inserts nothing, so that no Identification
\* ever has pooled reservations for more than one shoppable.
AlreadyReservedIsGlobal ==
    /\ [](\A id \in Ids : Cardinality(PooledShoppables(id)) <= 1)
    /\ [][\A r \in Slots :
            (StepFrom(r, "resFind")
               /\ ExistingReservation(reservations, req[r].id) # {})
            => /\ Rejected(r)
               /\ out'.status = "AlreadyReserved"]_vars

\* ------------------------------------------------------ the grace-window timer
\* The pooled reservations of t that the step inserts.
PooledInsert(t) ==
    {x \in reservations' \ reservations : x.shoppableId = t /\ x.order = Null}

\* C21: at most one grace-window timer is ever armed per shoppable: a timer is
\* armed only where none was set before, with the delay availableFrom +
\* GRACE_PERIOD_WINDOW - now of the request that arms it, by a step that
\* commits a pooled reservation of that shoppable, and the first pooled
\* reservation of a shoppable does arm it.
OneTimerArmedOnCommit ==
    [][\A t \in Tickets :
          /\ (timer'[t] # timer[t] /\ timer'[t].state = "armed")
             => /\ timer[t].state = "unset"
                /\ PooledInsert(t) # {}
                /\ \E r \in Slots :
                      /\ StepFrom(r, "resCreate")
                      /\ timer'[t].due - clock =
                            shop[t].availableFrom + GRACE_PERIOD_WINDOW - req[r].now
          /\ (PooledInsert(t) # {} /\ timer[t].state = "unset")
             => timer'[t].state = "armed"]_vars

\* The pooled reservation with row id n is in the table.
IsPooled(n) == \E x \in reservations : x.id = n /\ x.order = Null

\* The grace window of the shoppable of the pooled reservation n has elapsed.
WindowElapsed(n) ==
    \E x \in reservations :
        /\ x.id = n
        /\ x.order = Null
        /\ clock >= shop[x.shoppableId].availableFrom + GRACE_PERIOD_WINDOW

\* C22: every pooled reservation is eventually resolved: once the grace window
\* of its shoppable has elapsed, a reservation with order = null is
\* eventually deleted.
PooledEventuallyResolved ==
    \A n \in 1..MaxCalls : WindowElapsed(n) ~> ~IsPooled(n)

\* ------------------------------------------------------------ queue orders
\* C23: the queued reservations of one shoppable always have pairwise distinct
\* order values, and a newly queued reservation gets an order greater than
\* that of every reservation already queued for the shoppable (0 when there
\* is none).
QueueOrdersDistinctAndIncreasing ==
    /\ [](\A x, y \in reservations :
            (/\ x.shoppableId = y.shoppableId
             /\ x.order # Null
             /\ x.order = y.order) => x = y)
    /\ [][\A r \in Slots :
            QueueStep(r)
            => \A x \in reservations' \ reservations :
                  LET queued == Queued(reservations, x.shoppableId)
                  IN /\ \A y \in queued : y.order < x.order
                     /\ queued = {} => x.order = 0]_vars

GetCartReturns ==
    /\ out'.kind = "none"
    /\ out'.status \in {"-", "NotificationError"}
    /\ UNCHANGED <<clock, reservations, req, timer, intents, calls>>

\* C25: the expiry sweep of a getCart at now deletes exactly the consumables
\* with purchasedAt null and a non-null expiresAt <= now, and leaves all
\* others as they were.
SweepDeletesExactlyExpired ==
    [][GetCartReturns =>
         consumables' =
            {c \in consumables : ~(/\ c.purchasedAt = Null
                                   /\ c.expiresAt # Null
                                   /\ c.expiresAt <= clock)}]_vars

\* No call is in flight, a sweep has just freed a unit with a queue behind it,
\* and it has left a purchased consumable without expiry in the table.
ExpiredSweptPurchasedKept ==
    /\ \A r \in Slots : req[r].pc = "idle"
    /\ out.kind = "none"
    /\ out.queuedNotifications # {}
    /\ \E c \in consumables : c.purchasedAt # Null /\ c.expiresAt = Null

\* ------------------------------------------------- the notifications of getCart
\* The step is a getCart call, whatever became of its sweep.
GetCartStepOrError ==
    /\ out'.kind = "none"
    /\ UNCHANGED <<clock, reservations, req, timer, intents, calls>>

\* C26: getCart hands queued notifications to the handler only once the sweep
\* has resolved with its deletes committed: whenever a list is handed over,
\* every expired hold is gone from the table and every notified shoppable has
\* lost one in this sweep; a sweep that is rolled back hands over nothing.
NotificationsOnlyAfterCommit ==
    [][GetCartStepOrError =>
         /\ out'.queuedNotifications # {}
            => /\ out'.status # "SweepError"
               /\ ExpiredConsumables(consumables', clock) = {}
               /\ \A n \in out'.queuedNotifications :
                     \E c \in consumables \ consumables' : c.shoppableId = n[2]
         /\ out'.status = "SweepError"
            => consumables' = consumables /\ out'.queuedNotifications = {}]_vars

\* The sweep of a getCart has just been rolled back while a queued buyer
\* waits for the unit of an expired hold: nobody has been notified.
SweepFailedBeforeQueue ==
    /\ out.status = "SweepError"
    /\ out.queuedNotifications = {}
    /\ \E c \in ExpiredConsumables(consumables, clock) :
          Queued(reservations, c.shoppableId) # {}

\* C27: a failure of the notification handler does not undo the sweep: the
\* expired holds stay deleted, and getCart returns the cart of the swept
\* ledger.
NotificationErrorKeepsSweep ==
    [][(GetCartStepOrError /\ out'.status = "NotificationError") =>
         /\ ExpiredConsumables(consumables, clock) # {}
         /\ consumables' = consumables \ ExpiredConsumables(consumables, clock)
         /\ \A id \in Ids :
               getCart(consumables', reservations', id, clock).inCart
                  \cap ExpiredConsumables(consumables, clock) = {}]_vars

\* The notification handler has just failed on the list of a sweep, and the
\* notified buyer's reservation is in the cart getCart returns to that buyer.
NotificationFailedCartReturned ==
    /\ out.status = "NotificationError"
    /\ \E n \in out.queuedNotifications :
          \E x \in getCart(consumables, reservations, n[1], clock).reservations :
              x.shoppableId = n[2]

\* ------------------------------------------------------- the cart of getCart
\* C30: getCart(id) returns only rows of the Identification id: inCart is
\* exactly the consumables of id with purchasedAt null and expiresAt > now or
\* null, and reservations is exactly the reservations of id.
CartHoldsOnlyOwnRows ==
    [][GetCartReturns =>
         \A id \in Ids :
            LET cart == getCart(consumables', reservations', id, clock)
            IN /\ \A c \in consumables' :
                     c \in cart.inCart
                        <=> /\ c.owner = id
                            /\ c.purchasedAt = Null
                            /\ (c.expiresAt = Null \/ c.expiresAt > clock)
               /\ cart.inCart \subseteq consumables'
               /\ \A x \in reservations' : x \in cart.reservations <=> x.owner = id
               /\ cart.reservations \subseteq reservations']_vars

\* A getCart has just swept an expired hold and notified a queued buyer, whose
\* cart holds the reservation, while another buyer's cart holds a live hold.
TwoBuyersTwoCarts ==
    /\ \A r \in Slots : req[r].pc = "idle"
    /\ out.kind = "none"
    /\ \E n \in out.queuedNotifications :
          /\ getCart(consumables, reservations, n[1], clock).reservations # {}
          /\ \E id \in Ids \ {n[1]} :
                getCart(consumables, reservations, id, clock).inCart # {}

\* ------------------------------------------------- a failing timer callback
\* C28: a failure inside the timer-driven resolution is caught and logged in
\* afterGracePeriod: nothing is thrown at any caller, the ledger is as it was
\* before the callback ran, no call in flight is disturbed, and (the witness)
\* later addTicketToCart calls are served.
TimerFailureIsContained ==
    [][\A t \in Tickets :
          (timer[t].state = "armed" /\ timer'[t].state = "failed")
          => /\ consumables' = consumables
             /\ reservations' = reservations
             /\ req' = req
             /\ out' = NoOut
             /\ \A u \in Tickets \ {t} : timer'[u] = timer[u]]_vars

\* The timer callback of a shoppable has failed, and a later addTicketToCart
\* has been served all the same: its ensureState has resolved the pool and
\* the call has returned a hold, an item or a place in the queue.
ServedAfterTimerFailure ==
    /\ out.kind = "addTicketToCart"
    /\ out.status \in {"AddedToCart", "AddedToInventory", "PutInQueue"}
    /\ \E t \in Tickets :
          /\ timer[t].state = "failed"
          /\ Pooled(reservations, t) = {}
          /\ ConsOf(consumables, t) # {}

\* ------------------------------------------------- holds that are being paid
\* The hold c carries an intent that purchaseCart has created and whose
\* confirmation has not arrived yet.
AwaitsConfirmation(c) ==
    /\ c.purchasedAt = Null
    /\ c.stripeIntentId # Null
    /\ intents[c.stripeIntentId] \in {"live", "succeeded"}

\* C29: a buyer who pays is never left without the ticket: no step deletes a
\* hold between the creation of its payment intent and the arrival of that
\* intent's confirmation, also when its expiresAt passes in between, and the
\* first confirmation of an intent finds a consumable to mark as purchased.
PaidHoldOutlivesSweep ==
    [][/\ \A c \in consumables :
             AwaitsConfirmation(c) => \E d \in consumables' : d.id = c.id
       /\ \A i \in IntentIds :
             (intents[i] = "succeeded" /\ intents'[i] = "delivered")
             => \E d \in consumables' :
                   d.stripeIntentId = i /\ d.purchasedAt # Null]_vars
====
